---- MODULE Spec2Model ----
(***************************************************************************)
(* Gesture recognition and stabilization pipeline of the adaptive reader:  *)
(* GestureController (src/gesture_controller.py) with the gesture settings *)
(* of src/config.py, the reader's gesture and font handlers (src/gui.py)   *)
(* and its text-to-speech engine, TTSEngine (src/tts_engine.py).           *)
(*                                                                         *)
(* Units.  Landmark coordinates are normalized floats in the source; here  *)
(* they are integers in hundredths (0.15 is 15).  time.time() is a float   *)
(* in seconds; here the clock counts ticks, TicksPerSecond to the second.  *)
(* Python's None is the string "None".                                     *)
(***************************************************************************)
EXTENDS Integers, Sequences, FiniteSets, TLC

VARIABLES
    gesture_history,        \* self.gesture_history, a deque(maxlen=10)
    last_triggered_gesture, \* self.last_triggered_gesture
    last_gesture_time,      \* self.last_gesture_time
    is_running,             \* self.is_running; self.cap is open exactly then
    now,                    \* the clock read by time.time()
    frame,                  \* which path the last process_frame call took
    hand_landmarks,         \* hand_landmarks.landmark in that call
    frame_thumb_dir,        \* process_frame's thumb_dir in that call
    frame_fingers,          \* process_frame's fingers in that call
    detected_gesture,       \* process_frame's detected_gesture in that call
    stable_gesture,         \* the stable gesture that call returned
    callbacks,              \* the on_gesture_callback calls that call made
    prior,                  \* what had been observed when that callback was made
    cb_gesture,             \* the gesture of the most recent callback
    cb_time,                \* the time of the most recent callback, -1 before any
    cb_reset,               \* a no-hand frame was processed since that callback
    callback_may_raise,     \* the registered callback is one that can raise
    cb_raised,              \* the most recent callback raised an exception
    cb_seen,                \* the dispatch state that callback found on entry
    pc,                     \* where each thread calling _trigger_gesture is
    t_gesture,              \* each thread's argument gesture
    t_time,                 \* each thread's local current_time
    mutex,                  \* the callers hold a lock around each gate call
    gestures_enabled,       \* the reader's self.gestures_enabled
    gesture_window,         \* the reader's self.gesture_window is not None
    first_poll_due,         \* _start_gesture_control is about to poll directly
    pending_polls,          \* root.after(30, _process_gesture_frame) calls due
    pending_actions,        \* root.after(0, _execute_gesture_action) calls due
    current_font_size,      \* the reader's self.current_font_size
    gui_event,              \* the reader's handler that ran last
    executed,               \* the action that handler was to perform
    is_speaking,            \* TTSEngine's self.is_speaking
    is_paused,              \* TTSEngine's self.is_paused
    should_stop,            \* TTSEngine's self.should_stop
    speech_thread,          \* self.speech_thread: a playback thread, or NoThread
    speech_pc,              \* where each playback thread is in _speak_thread_func
    is_paused_locally,      \* each playback thread's local is_paused_locally
    music,                  \* pygame.mixer.music: "idle", "playing" or "paused"
    main_pc,                \* where the main thread is in a TTSEngine method
    main_call,              \* the TTSEngine method the main thread was called in
    main_text,              \* speak()'s text, stripped, is not empty
    called_in,              \* get_state() when pause() or resume() read the flags
    returned,               \* what the last pause(), resume() or toggle_pause() returned
    stopped,                \* the playback threads alive when a stop() began
    scheduled,              \* the playback threads that scheduled on_complete_callback
    tts_event               \* the statement of the engine that ran last

vars == <<gesture_history, last_triggered_gesture, last_gesture_time,
          is_running, now, frame, hand_landmarks, frame_thumb_dir,
          frame_fingers,
          detected_gesture, stable_gesture, callbacks, prior,
          cb_gesture, cb_time, cb_reset, callback_may_raise, cb_raised,
          cb_seen, pc, t_gesture, t_time, mutex, gestures_enabled,
          gesture_window, first_poll_due, pending_polls, pending_actions,
          current_font_size, gui_event, executed, is_speaking, is_paused,
          should_stop, speech_thread, speech_pc, is_paused_locally, music,
          main_pc, main_call, main_text, called_in, returned, stopped,
          scheduled, tts_event>>

None == "None"

-----------------------------------------------------------------------------
(* Bounds of the model *)

TicksPerSecond == 2
Horizon == 4
MaxDt == 2
MaxSpeak == 2

-----------------------------------------------------------------------------
(* src/config.py *)

GESTURE_COOLDOWN == 1 * TicksPerSecond

\* Mutant: the two page actions are exchanged.
\* Mutant: the fist has no action.
GESTURE_ACTIONS_without_fist ==
    [thumbs_up   |-> "increase_font",
     thumbs_down |-> "decrease_font",
     open_palm   |-> "toggle_tts",
     point_up    |-> "next_page",
     peace       |-> "previous_page",
     swipe_left  |-> "next_page",
     swipe_right |-> "previous_page"]

GESTURE_ACTIONS_pages_swapped ==
    [thumbs_up   |-> "increase_font",
     thumbs_down |-> "decrease_font",
     open_palm   |-> "toggle_tts",
     fist        |-> "stop_tts",
     point_up    |-> "previous_page",
     peace       |-> "next_page",
     swipe_left  |-> "next_page",
     swipe_right |-> "previous_page"]

GESTURE_ACTIONS ==
    [thumbs_up   |-> "increase_font",
     thumbs_down |-> "decrease_font",
     open_palm   |-> "toggle_tts",
     fist        |-> "stop_tts",
     point_up    |-> "next_page",
     peace       |-> "previous_page",
     swipe_left  |-> "next_page",
     swipe_right |-> "previous_page"]

\* config.py font settings
DEFAULT_FONT_SIZE == 18
MIN_FONT_SIZE == 12
MAX_FONT_SIZE == 48
FONT_SIZE_STEP == 2

\* config.GESTURE_ACTIONS.get(gesture)
GESTURE_ACTIONS_get(gesture) ==
    IF gesture \in DOMAIN GESTURE_ACTIONS THEN GESTURE_ACTIONS[gesture] ELSE None

-----------------------------------------------------------------------------
(* GestureController.__init__ *)

HISTORY_MAXLEN == 10

\* The reader and the stand-alone test both construct the controller with a
\* callback.
on_gesture_callback == TRUE

WRIST == 0
THUMB_TIP == 4
INDEX_MCP == 5
INDEX_PIP == 6
INDEX_TIP == 8
MIDDLE_PIP == 10
MIDDLE_TIP == 12
RING_PIP == 14
RING_TIP == 16
PINKY_PIP == 18
PINKY_TIP == 20

-----------------------------------------------------------------------------
(* Landmark geometry *)

\* Mutant: a tip level with its PIP joint counts as extended.
_get_finger_state_inclusive(landmarks) ==
    [index  |-> landmarks[INDEX_TIP].y <= landmarks[INDEX_PIP].y,
     middle |-> landmarks[MIDDLE_TIP].y <= landmarks[MIDDLE_PIP].y,
     ring   |-> landmarks[RING_TIP].y <= landmarks[RING_PIP].y,
     pinky  |-> landmarks[PINKY_TIP].y <= landmarks[PINKY_PIP].y]

_get_finger_state(landmarks) ==
    [index  |-> landmarks[INDEX_TIP].y < landmarks[INDEX_PIP].y,
     middle |-> landmarks[MIDDLE_TIP].y < landmarks[MIDDLE_PIP].y,
     ring   |-> landmarks[RING_TIP].y < landmarks[RING_PIP].y,
     pinky  |-> landmarks[PINKY_TIP].y < landmarks[PINKY_PIP].y]

abs(v) == IF v < 0 THEN -v ELSE v

UP_THRESHOLD == 15
DOWN_THRESHOLD == -10
SIDE_THRESHOLD == 12

\* Mutant: the thresholds are inclusive.
_get_thumb_direction_inclusive(landmarks) ==
    LET thumb_tip == landmarks[THUMB_TIP]
        wrist == landmarks[WRIST]
        vertical_diff == wrist.y - thumb_tip.y
        horizontal_diff == abs(thumb_tip.x - wrist.x)
    IN  IF vertical_diff >= UP_THRESHOLD THEN "up"
        ELSE IF vertical_diff <= DOWN_THRESHOLD THEN "down"
        ELSE IF horizontal_diff >= SIDE_THRESHOLD THEN "side"
        ELSE "curled"

_get_thumb_direction(landmarks) ==
    LET thumb_tip == landmarks[THUMB_TIP]
        wrist == landmarks[WRIST]
        vertical_diff == wrist.y - thumb_tip.y
        horizontal_diff == abs(thumb_tip.x - wrist.x)
    IN  IF vertical_diff > UP_THRESHOLD THEN "up"
        ELSE IF vertical_diff < DOWN_THRESHOLD THEN "down"
        ELSE IF horizontal_diff > SIDE_THRESHOLD THEN "side"
        ELSE "curled"

all_curled(fingers) ==
    ~fingers.index /\ ~fingers.middle /\ ~fingers.ring /\ ~fingers.pinky

\* Mutant: the fingers are not looked at.
_is_thumb_up_any_fingers(landmarks, fingers) ==
    _get_thumb_direction(landmarks) = "up"

_is_thumb_up(landmarks, fingers) ==
    IF _get_thumb_direction(landmarks) # "up" THEN FALSE ELSE all_curled(fingers)

_is_thumb_down(landmarks, fingers) ==
    IF _get_thumb_direction(landmarks) # "down" THEN FALSE ELSE all_curled(fingers)

\* Mutant: the thumb is not looked at.
_is_open_palm_any_thumb(landmarks, fingers) ==
    fingers.index /\ fingers.middle /\ fingers.ring /\ fingers.pinky

_is_open_palm(landmarks, fingers) ==
    LET thumb_out == _get_thumb_direction(landmarks) \in {"up", "side"}
        all_extended == fingers.index /\ fingers.middle /\ fingers.ring /\ fingers.pinky
    IN  all_extended /\ thumb_out

TUCK_THRESHOLD == 15
NOT_POINTING_THRESHOLD == 12

\* Mutant: only a tucked thumb makes a fist.
_is_fist_tucked_only(landmarks, fingers) ==
    IF ~all_curled(fingers) THEN FALSE
    ELSE LET thumb_tip == landmarks[THUMB_TIP]
             index_mcp == landmarks[INDEX_MCP]
             wrist == landmarks[WRIST]
             thumb_to_palm_x2 == abs(2 * thumb_tip.x - (index_mcp.x + wrist.x))
             thumb_to_palm_y2 == abs(2 * thumb_tip.y - (index_mcp.y + wrist.y))
         IN  /\ thumb_to_palm_x2 < 2 * TUCK_THRESHOLD
             /\ thumb_to_palm_y2 < 2 * TUCK_THRESHOLD

\* Mutant: a thumb tip at exactly 0.15 from the palm centre counts as tucked.
_is_fist_inclusive(landmarks, fingers) ==
    IF ~all_curled(fingers) THEN FALSE
    ELSE LET thumb_tip == landmarks[THUMB_TIP]
             index_mcp == landmarks[INDEX_MCP]
             wrist == landmarks[WRIST]
             thumb_to_palm_x2 == abs(2 * thumb_tip.x - (index_mcp.x + wrist.x))
             thumb_to_palm_y2 == abs(2 * thumb_tip.y - (index_mcp.y + wrist.y))
             thumb_tucked == thumb_to_palm_x2 <= 2 * TUCK_THRESHOLD
                             /\ thumb_to_palm_y2 <= 2 * TUCK_THRESHOLD
             vertical_diff == abs(wrist.y - thumb_tip.y)
             thumb_not_pointing == vertical_diff < NOT_POINTING_THRESHOLD
         IN  all_curled(fingers) /\ (thumb_tucked \/ thumb_not_pointing)

\* palm_center is (index_mcp + wrist) / 2: the distances are compared doubled,
\* so that the halves stay exact.
_is_fist(landmarks, fingers) ==
    IF ~all_curled(fingers) THEN FALSE
    ELSE LET thumb_tip == landmarks[THUMB_TIP]
             index_mcp == landmarks[INDEX_MCP]
             wrist == landmarks[WRIST]
             thumb_to_palm_x2 == abs(2 * thumb_tip.x - (index_mcp.x + wrist.x))
             thumb_to_palm_y2 == abs(2 * thumb_tip.y - (index_mcp.y + wrist.y))
             thumb_tucked == thumb_to_palm_x2 < 2 * TUCK_THRESHOLD
                             /\ thumb_to_palm_y2 < 2 * TUCK_THRESHOLD
             vertical_diff == abs(wrist.y - thumb_tip.y)
             thumb_not_pointing == vertical_diff < NOT_POINTING_THRESHOLD
         IN  all_curled(fingers) /\ (thumb_tucked \/ thumb_not_pointing)

_is_peace_sign(landmarks, fingers) ==
    fingers.index /\ fingers.middle /\ ~fingers.ring /\ ~fingers.pinky

_is_pointing_up(landmarks, fingers) ==
    fingers.index /\ ~fingers.middle /\ ~fingers.ring /\ ~fingers.pinky

\* Mutant: the fist is checked before the two thumb gestures.
detect_gesture_fist_first(landmarks) ==
    LET fingers == _get_finger_state(landmarks)
    IN  IF _is_fist(landmarks, fingers) THEN "fist"
        ELSE IF _is_thumb_up(landmarks, fingers) THEN "thumbs_up"
        ELSE IF _is_thumb_down(landmarks, fingers) THEN "thumbs_down"
        ELSE IF _is_pointing_up(landmarks, fingers) THEN "point_up"
        ELSE IF _is_peace_sign(landmarks, fingers) THEN "peace"
        ELSE IF _is_open_palm(landmarks, fingers) THEN "open_palm"
        ELSE None

detect_gesture(landmarks) ==
    LET fingers == _get_finger_state(landmarks)
    IN  IF _is_thumb_up(landmarks, fingers) THEN "thumbs_up"
        ELSE IF _is_thumb_down(landmarks, fingers) THEN "thumbs_down"
        ELSE IF _is_pointing_up(landmarks, fingers) THEN "point_up"
        ELSE IF _is_peace_sign(landmarks, fingers) THEN "peace"
        ELSE IF _is_open_palm(landmarks, fingers) THEN "open_palm"
        ELSE IF _is_fist(landmarks, fingers) THEN "fist"
        ELSE None

-----------------------------------------------------------------------------
(* Temporal stabilizer *)

\* Mutant: a full deque drops its newest entry.
deque_append_drops_newest(dq, x) ==
    IF Len(dq) >= HISTORY_MAXLEN
    THEN Append(SubSeq(dq, 1, Len(dq) - 1), x)
    ELSE Append(dq, x)

\* deque(maxlen=10).append: a full deque drops its oldest entry.
deque_append(dq, x) ==
    IF Len(dq) >= HISTORY_MAXLEN THEN Append(Tail(dq), x) ELSE Append(dq, x)

\* The keys of gesture_counts in insertion order: the labels of history that
\* are not None, each at its first occurrence.  The keys collected so far are
\* passed on as a value (k), which keeps the evaluation linear in the length.
RECURSIVE gesture_counts_keys(_, _)
gesture_counts_keys(history, keys) ==
    IF history = <<>> THEN keys
    ELSE LET g == Head(history)
             seen == \E i \in 1..Len(keys) : keys[i] = g
             appended == IF g = None \/ seen THEN keys ELSE Append(keys, g)
         IN  CHOOSE result \in {gesture_counts_keys(Tail(history), k) :
                                    k \in {appended}} : TRUE

\* gesture_counts[g]
gesture_counts(history, g) ==
    Cardinality({i \in 1..Len(history) : history[i] = g})

\* max(gesture_counts, key=gesture_counts.get): the first key, in insertion
\* order, whose count is the largest.
most_common_of(history) ==
    LET keys == gesture_counts_keys(history, <<>>)
        c(i) == gesture_counts(history, keys[i])
        first == CHOOSE i \in 1..Len(keys) :
                     /\ \A j \in 1..Len(keys) : c(j) <= c(i)
                     /\ \A j \in 1..(i - 1) : c(j) < c(i)
    IN  keys[first]

\* Mutant: the cold-start guard is one sample short.
too_few_samples_off_by_one(history) == Len(history) < 4

\* len(self.gesture_history) < 5
too_few_samples(history) == Len(history) < 5

\* Mutant: half of the samples are enough.
is_consistent_half(count, history) == 2 * count >= Len(history)

\* Mutant: the share is taken of the capacity, not of the current length.
is_consistent_of_capacity(count, history) == 10 * count >= 6 * HISTORY_MAXLEN

\* count >= len(self.gesture_history) * 0.6
is_consistent(count, history) == 10 * count >= 6 * Len(history)

\* The value _get_stable_gesture returns, history being self.gesture_history
\* once current_gesture has been appended to it.
stable_of(history) ==
    IF too_few_samples(history) THEN None
    ELSE IF gesture_counts_keys(history, <<>>) = <<>> THEN None
    ELSE LET most_common == most_common_of(history)
             count == gesture_counts(history, most_common)
         IN  IF is_consistent(count, history) THEN most_common ELSE None

-----------------------------------------------------------------------------
(* Dispatch gate *)

\* Mutant: the elapsed time is measured since the previous frame.
in_cooldown_since_previous_frame(current_time) ==
    current_time - now < GESTURE_COOLDOWN

\* Mutant: the cooldown ends one tick early.
in_cooldown_one_tick_short(current_time) ==
    current_time - last_gesture_time < GESTURE_COOLDOWN - 1

\* current_time - self.last_gesture_time < self.cooldown
in_cooldown(current_time) == current_time - last_gesture_time < GESTURE_COOLDOWN

\* Mutant: the repeat check is missing.
is_repeat_never(gesture) == FALSE

\* gesture == self.last_triggered_gesture
is_repeat(gesture) == gesture = last_triggered_gesture

\* The on_gesture_callback call and what an observer of the callback records.
NoPrior == [gesture |-> None, time |-> -1, reset |-> FALSE]

NoSeen == [gesture |-> None, time |-> -1]

\* self.on_gesture_callback(gesture, action), called with the assignments
\* before it already made; an exception it raises propagates to the caller of
\* process_frame and undoes nothing.
invoke_callback(gesture, action, current_time) ==
    /\ callbacks' = <<[gesture |-> gesture, action |-> action]>>
    /\ prior' = [gesture |-> cb_gesture, time |-> cb_time, reset |-> cb_reset]
    /\ cb_gesture' = gesture
    /\ cb_time' = current_time
    /\ cb_reset' = FALSE
    /\ cb_seen' = [gesture |-> last_triggered_gesture',
                   time |-> last_gesture_time']
    /\ cb_raised' \in {FALSE, callback_may_raise}
    /\ UNCHANGED callback_may_raise

no_callback ==
    /\ callbacks' = <<>>
    /\ prior' = NoPrior
    /\ cb_seen' = NoSeen
    /\ UNCHANGED <<cb_gesture, cb_time, cb_raised, callback_may_raise>>

\* Mutant: a suppressed call restarts the cooldown.
gate_returns_restarts_cooldown ==
    /\ no_callback
    /\ last_gesture_time' = now'
    /\ UNCHANGED <<last_triggered_gesture, cb_reset>>

\* The early returns of _trigger_gesture.
gate_returns ==
    /\ no_callback
    /\ UNCHANGED <<last_triggered_gesture, last_gesture_time, cb_reset>>

\* Mutant: the callback is called before the dispatch state is updated, and an
\* exception it raises skips the update.
_trigger_gesture_callback_first(gesture, current_time) ==
    IF in_cooldown(current_time)
    THEN gate_returns
    ELSE IF is_repeat(gesture)
    THEN gate_returns
    ELSE LET action == GESTURE_ACTIONS_get(gesture)
         IN  IF action # None /\ on_gesture_callback
             THEN /\ callbacks' = <<[gesture |-> gesture, action |-> action]>>
                  /\ prior' = [gesture |-> cb_gesture, time |-> cb_time,
                               reset |-> cb_reset]
                  /\ cb_gesture' = gesture
                  /\ cb_time' = current_time
                  /\ cb_reset' = FALSE
                  /\ cb_seen' = [gesture |-> last_triggered_gesture,
                                 time |-> last_gesture_time]
                  /\ cb_raised' \in {FALSE, callback_may_raise}
                  /\ UNCHANGED callback_may_raise
                  /\ IF cb_raised'
                     THEN UNCHANGED <<last_triggered_gesture, last_gesture_time>>
                     ELSE /\ last_triggered_gesture' = gesture
                          /\ last_gesture_time' = current_time
             ELSE /\ last_triggered_gesture' = gesture
                  /\ last_gesture_time' = current_time
                  /\ no_callback
                  /\ UNCHANGED cb_reset

\* Mutant: edge-triggered: a gesture suppressed by the cooldown is remembered as
\* triggered, so it is a repeat once the cooldown is over.
_trigger_gesture_edge_triggered(gesture, current_time) ==
    IF in_cooldown(current_time)
    THEN /\ no_callback
         /\ last_triggered_gesture' = gesture
         /\ UNCHANGED <<last_gesture_time, cb_reset>>
    ELSE IF is_repeat(gesture)
    THEN gate_returns
    ELSE /\ last_triggered_gesture' = gesture
         /\ last_gesture_time' = current_time
         /\ LET action == GESTURE_ACTIONS_get(gesture)
            IN  IF action # None /\ on_gesture_callback
                THEN invoke_callback(gesture, action, current_time)
                ELSE no_callback /\ UNCHANGED cb_reset

\* Mutant: the action is looked up first, and a gesture without one returns
\* before the dispatch state is updated.
_trigger_gesture_lookup_first(gesture, current_time) ==
    IF in_cooldown(current_time)
    THEN gate_returns
    ELSE IF is_repeat(gesture)
    THEN gate_returns
    ELSE LET action == GESTURE_ACTIONS_get(gesture)
         IN  IF action # None /\ on_gesture_callback
             THEN /\ last_triggered_gesture' = gesture
                  /\ last_gesture_time' = current_time
                  /\ invoke_callback(gesture, action, current_time)
             ELSE gate_returns

_trigger_gesture(gesture, current_time) ==
    IF in_cooldown(current_time)
    THEN gate_returns
    ELSE IF is_repeat(gesture)
    THEN gate_returns
    ELSE /\ last_triggered_gesture' = gesture
         /\ last_gesture_time' = current_time
         /\ LET action == GESTURE_ACTIONS_get(gesture)
            IN  IF action # None /\ on_gesture_callback
                THEN invoke_callback(gesture, action, current_time)
                ELSE no_callback /\ UNCHANGED cb_reset

-----------------------------------------------------------------------------
(* The frame source and the clock *)

Landmark(x, y) == [x |-> x, y |-> y]

Fingers == {"index", "middle", "ring", "pinky"}

\* A hand with the wrist at (0.50, 0.80), the index knuckle at (0.45, 0.50),
\* the thumb tip where given, every PIP joint at height 0.40 and the tip of
\* a finger at 0.30 when the finger is in extended and at 0.50 when not.
Hand(thumb_tip, extended) ==
    LET tip(f) == Landmark(50, IF f \in extended THEN 30 ELSE 50)
    IN  [i \in 0..20 |->
            CASE i = WRIST -> Landmark(50, 80)
              [] i = THUMB_TIP -> thumb_tip
              [] i = INDEX_MCP -> Landmark(45, 50)
              [] i = INDEX_TIP -> tip("index")
              [] i = MIDDLE_TIP -> tip("middle")
              [] i = RING_TIP -> tip("ring")
              [] i = PINKY_TIP -> tip("pinky")
              [] OTHER -> Landmark(50, 40)]

ThumbsUpHand == Hand(Landmark(50, 55), {})
PeaceHand == Hand(Landmark(50, 75), {"index", "middle"})
ThreeFingerHand == Hand(Landmark(50, 75), {"index", "middle", "ring"})

ThumbsDownHand == Hand(Landmark(50, 95), {})
FistHand == Hand(Landmark(50, 75), {})
PointUpHand == Hand(Landmark(50, 75), {"index"})
OpenPalmHand == Hand(Landmark(75, 75), Fingers)

\* A hand for each gesture and one that is classified as no gesture.
SixGestureHands == {ThumbsUpHand, ThumbsDownHand, FistHand, PointUpHand,
                    PeaceHand, OpenPalmHand, ThreeFingerHand}

\* One gesture and a hand that is classified as no gesture.
FrameHands == {ThumbsUpHand, ThreeFingerHand}
\* Two different gestures.
TwoGestureHands == {ThumbsUpHand, PeaceHand}

\* A hand with the wrist at (0.50, 0.80), every PIP joint at height 0.40, and
\* the thumb tip, the index knuckle and the height of each finger tip as given.
GridHand(thumb_tip, index_mcp, tip_y) ==
    [i \in 0..20 |->
        CASE i = WRIST -> Landmark(50, 80)
          [] i = THUMB_TIP -> thumb_tip
          [] i = INDEX_MCP -> index_mcp
          [] i = INDEX_TIP -> Landmark(50, tip_y.index)
          [] i = MIDDLE_TIP -> Landmark(50, tip_y.middle)
          [] i = RING_TIP -> Landmark(50, tip_y.ring)
          [] i = PINKY_TIP -> Landmark(50, tip_y.pinky)
          [] OTHER -> Landmark(50, 40)]

\* Thumb tips on both sides of, and on, every threshold; finger tips above,
\* at and below their PIP joints.
GridThumbX == {50, 62, 63, 75}
GridThumbY == {55, 64, 65, 66, 68, 69, 80, 89, 90, 91}
GridIndexMcp == {Landmark(45, 50), Landmark(44, 50), Landmark(45, 20)}
GridTipY == [Fingers -> {30, 40, 50}]
GridHands ==
    {GridHand(Landmark(x, y), mcp, tip_y) :
        x \in GridThumbX, y \in GridThumbY, mcp \in GridIndexMcp, tip_y \in GridTipY}

\* Labels handed to the gate directly: the classifier's six, one that only the
\* action table knows, and one that nothing knows.
GateLabels == {"thumbs_up", "thumbs_down", "open_palm", "fist", "point_up",
               "peace", "swipe_left", "wave"}

\* time.time() is far past the first cooldown when the program starts.
StartTime == GESTURE_COOLDOWN + 1
MaxTime == StartTime + Horizon

clock_advances(dt) ==
    /\ now + dt <= MaxTime
    /\ now' = now + dt

-----------------------------------------------------------------------------
(* Threads calling _trigger_gesture *)

Threads == {1, 2}
ThreadLabels == {"thumbs_up", "peace"}

threads_idle ==
    /\ pc = [t \in Threads |-> "idle"]
    /\ t_gesture = [t \in Threads |-> None]
    /\ t_time = [t \in Threads |-> 0]

\* One caller at a time, as in process_frame's polling loop.
single_threaded == UNCHANGED <<pc, t_gesture, t_time, mutex>>

-----------------------------------------------------------------------------
(* The reader (gui.py): construction *)

NoExecution == [gesture |-> None, action |-> None, performed |-> FALSE,
                before |-> 0]

\* AdaptiveReaderGUI.__init__
reader_constructed ==
    /\ gestures_enabled = FALSE
    /\ gesture_window = FALSE
    /\ first_poll_due = FALSE
    /\ pending_polls = 0
    /\ pending_actions = <<>>
    /\ current_font_size = DEFAULT_FONT_SIZE
    /\ gui_event = "init"
    /\ executed = NoExecution

\* The controller used without the reader.
no_reader ==
    UNCHANGED <<gestures_enabled, gesture_window, first_poll_due, pending_polls,
                pending_actions, current_font_size, gui_event, executed>>

-----------------------------------------------------------------------------
(* TTSEngine (src/tts_engine.py): construction *)

\* The playback threads speak() can start, in the order it starts them.
SpeechThreads == 1..MaxSpeak
NoThread == 0

\* TTSEngine.__init__
tts_constructed ==
    /\ is_speaking = FALSE
    /\ is_paused = FALSE
    /\ should_stop = FALSE
    /\ speech_thread = NoThread
    /\ speech_pc = [t \in SpeechThreads |-> "unborn"]
    /\ is_paused_locally = [t \in SpeechThreads |-> FALSE]
    /\ music = "idle"
    /\ main_pc = "idle"
    /\ main_call = None
    /\ main_text = FALSE
    /\ called_in = None
    /\ returned = None
    /\ stopped = {}
    /\ scheduled = {}
    /\ tts_event = "init"

\* No method of the engine is called and no playback thread runs.
no_tts ==
    UNCHANGED <<is_speaking, is_paused, should_stop, speech_thread, speech_pc,
                is_paused_locally, music, main_pc, main_call, main_text,
                called_in, returned, stopped, scheduled, tts_event>>

-----------------------------------------------------------------------------
(* process_frame *)

\* A call that looks at no hand.
no_landmarks ==
    /\ hand_landmarks' = None
    /\ frame_thumb_dir' = None
    /\ frame_fingers' = None
    /\ detected_gesture' = None

Init ==
    /\ gesture_history = <<>>
    /\ last_triggered_gesture = None
    /\ last_gesture_time = 0
    /\ is_running = FALSE
    /\ now = StartTime
    /\ frame = "init"
    /\ hand_landmarks = None
    /\ frame_thumb_dir = None
    /\ frame_fingers = None
    /\ stable_gesture = None
    /\ detected_gesture = None
    /\ callbacks = <<>>
    /\ prior = NoPrior
    /\ cb_gesture = None
    /\ cb_time = -1
    /\ cb_reset = FALSE
    /\ callback_may_raise = FALSE
    /\ cb_raised = FALSE
    /\ cb_seen = NoSeen
    /\ threads_idle
    /\ mutex = FALSE
    /\ reader_constructed
    /\ tts_constructed

\* cap.read() fails (or the camera is not running): return None, None.
process_frame_no_frame(dt) ==
    /\ clock_advances(dt)
    /\ frame' = "no_frame"
    /\ no_landmarks
    /\ stable_gesture' = None
    /\ no_callback
    /\ UNCHANGED <<gesture_history, last_triggered_gesture, last_gesture_time,
                   is_running, cb_reset>>

\* Mutant: a stabilized None restarts the cooldown.
not_triggered_restarts_cooldown ==
    /\ no_callback
    /\ last_gesture_time' = now'
    /\ UNCHANGED <<last_triggered_gesture, cb_reset>>

\* Mutant: a stabilized None forgets the last triggered gesture.
not_triggered_forgets ==
    /\ no_callback
    /\ last_triggered_gesture' = None
    /\ UNCHANGED <<last_gesture_time, cb_reset>>

\* if stable_gesture: is false, so _trigger_gesture is not called.
not_triggered ==
    /\ no_callback
    /\ UNCHANGED <<last_triggered_gesture, last_gesture_time, cb_reset>>

\* results.multi_hand_landmarks holds the one hand (max_num_hands=1).  The
\* locals detected, history and stable are bound to their values once.
process_frame_hand(landmarks, dt) ==
    /\ is_running
    /\ clock_advances(dt)
    /\ frame' = "hand"
    /\ hand_landmarks' = landmarks
    /\ frame_thumb_dir' = _get_thumb_direction(landmarks)
    /\ frame_fingers' = _get_finger_state(landmarks)
    /\ UNCHANGED is_running
    /\ \E detected \in {detect_gesture(landmarks)} :
       \E history \in {deque_append(gesture_history, detected)} :
       \E stable \in {stable_of(history)} :
           /\ detected_gesture' = detected
           /\ gesture_history' = history
           /\ stable_gesture' = stable
           /\ IF stable # None
              THEN _trigger_gesture(stable, now')
              ELSE not_triggered

\* Mutant: the history decays by one None instead of being cleared.
decayed_history == deque_append(gesture_history, None)

\* self.gesture_history.clear()
cleared_history == <<>>

\* Mutant: the last triggered gesture survives the loss of the hand.
kept_trigger == last_triggered_gesture

\* self.last_triggered_gesture = None
cleared_trigger == None

\* No hand detected - clear history.
process_frame_no_hand(dt) ==
    /\ is_running
    /\ clock_advances(dt)
    /\ frame' = "no_hand"
    /\ no_landmarks
    /\ stable_gesture' = None
    /\ gesture_history' = cleared_history
    /\ last_triggered_gesture' = cleared_trigger
    /\ no_callback
    /\ cb_reset' = TRUE
    /\ UNCHANGED <<last_gesture_time, is_running>>

\* The gate called on its own with a stabilized label.
trigger_gesture_call(gesture, dt) ==
    /\ clock_advances(dt)
    /\ frame' = "gate"
    /\ no_landmarks
    /\ stable_gesture' = gesture
    /\ _trigger_gesture(gesture, now')
    /\ UNCHANGED <<gesture_history, is_running>>

\* start_camera, called while the camera is stopped (the reader starts it on
\* construction's first enable and after each stop).  Each camera index tried
\* sleeps 0.5 s; opened says whether a camera was found.
start_camera(opened, dt) ==
    /\ ~is_running
    /\ clock_advances(dt)
    /\ frame' = "start"
    /\ is_running' = opened
    /\ no_landmarks
    /\ stable_gesture' = None
    /\ no_callback
    /\ UNCHANGED <<gesture_history, last_triggered_gesture, last_gesture_time,
                   cb_reset>>

\* stop_camera
stop_camera(dt) ==
    /\ is_running
    /\ clock_advances(dt)
    /\ frame' = "stop"
    /\ is_running' = FALSE
    /\ no_landmarks
    /\ stable_gesture' = None
    /\ no_callback
    /\ UNCHANGED <<gesture_history, last_triggered_gesture, last_gesture_time,
                   cb_reset>>

\* detect_gesture, _get_thumb_direction and _get_finger_state applied to one
\* landmark set, as process_frame applies them, without the stabilizer.
classify_call(landmarks) ==
    /\ frame' = "classify"
    /\ hand_landmarks' = landmarks
    /\ detected_gesture' = detect_gesture(landmarks)
    /\ frame_thumb_dir' = _get_thumb_direction(landmarks)
    /\ frame_fingers' = _get_finger_state(landmarks)
    /\ stable_gesture' = None
    /\ no_callback
    /\ UNCHANGED <<gesture_history, last_triggered_gesture, last_gesture_time,
                   is_running, now, cb_reset>>

-----------------------------------------------------------------------------
(* _trigger_gesture called from several threads, statement by statement *)

gate_step(t, next) ==
    /\ pc' = [pc EXCEPT ![t] = next]
    /\ frame' = "thread"
    /\ no_landmarks
    /\ stable_gesture' = t_gesture'[t]
    /\ no_reader
    /\ no_tts
    /\ UNCHANGED <<gesture_history, is_running, mutex>>

\* Mutant: the callers' lock does not exclude.
gate_enter_unlocked(t, gesture, dt) ==
    /\ pc[t] = "idle"
    /\ clock_advances(dt)
    /\ t_gesture' = [t_gesture EXCEPT ![t] = gesture]
    /\ t_time' = [t_time EXCEPT ![t] = now']
    /\ gate_step(t, "check_cooldown")
    /\ gate_returns

\* The call and current_time = time.time(); with a lock around the call, the
\* thread enters only while no other thread is inside.
gate_enter(t, gesture, dt) ==
    /\ pc[t] = "idle"
    /\ mutex => \A u \in Threads : pc[u] = "idle"
    /\ clock_advances(dt)
    /\ t_gesture' = [t_gesture EXCEPT ![t] = gesture]
    /\ t_time' = [t_time EXCEPT ![t] = now']
    /\ gate_step(t, "check_cooldown")
    /\ gate_returns

\* if current_time - self.last_gesture_time < self.cooldown: return
gate_check_cooldown(t) ==
    /\ pc[t] = "check_cooldown"
    /\ UNCHANGED <<now, t_gesture, t_time>>
    /\ gate_step(t, IF in_cooldown(t_time[t]) THEN "idle" ELSE "check_repeat")
    /\ gate_returns

\* if gesture == self.last_triggered_gesture: return
gate_check_repeat(t) ==
    /\ pc[t] = "check_repeat"
    /\ UNCHANGED <<now, t_gesture, t_time>>
    /\ gate_step(t, IF is_repeat(t_gesture[t]) THEN "idle" ELSE "set_gesture")
    /\ gate_returns

\* self.last_triggered_gesture = gesture
gate_set_gesture(t) ==
    /\ pc[t] = "set_gesture"
    /\ UNCHANGED <<now, t_gesture, t_time>>
    /\ gate_step(t, "set_time")
    /\ last_triggered_gesture' = t_gesture[t]
    /\ no_callback
    /\ UNCHANGED <<last_gesture_time, cb_reset>>

\* self.last_gesture_time = current_time
gate_set_time(t) ==
    /\ pc[t] = "set_time"
    /\ UNCHANGED <<now, t_gesture, t_time>>
    /\ gate_step(t, "callback")
    /\ last_gesture_time' = t_time[t]
    /\ no_callback
    /\ UNCHANGED <<last_triggered_gesture, cb_reset>>

\* action = GESTURE_ACTIONS.get(gesture) and the callback.
gate_callback(t) ==
    /\ pc[t] = "callback"
    /\ UNCHANGED <<now, t_gesture, t_time>>
    /\ gate_step(t, "idle")
    /\ UNCHANGED <<last_triggered_gesture, last_gesture_time>>
    /\ LET action == GESTURE_ACTIONS_get(t_gesture[t])
       IN  IF action # None /\ on_gesture_callback
           THEN invoke_callback(t_gesture[t], action, t_time[t])
           ELSE no_callback /\ UNCHANGED cb_reset

-----------------------------------------------------------------------------
(* The reader (gui.py): handlers of the Tk event loop, one at a time *)

\* A handler that does not call the controller.
no_controller_call ==
    UNCHANGED <<gesture_history, last_triggered_gesture, last_gesture_time,
                is_running, now, frame, hand_landmarks, frame_thumb_dir,
                frame_fingers, detected_gesture, stable_gesture, callbacks,
                prior, cb_gesture, cb_time, cb_reset, callback_may_raise,
                cb_raised, cb_seen>>

\* self.gesture_controller.process_frame(), the camera seeing a thumbs_up, no
\* hand, or nothing.
process_frame(dt) ==
    \/ process_frame_hand(ThumbsUpHand, dt)
    \/ process_frame_no_hand(dt)
    \/ process_frame_no_frame(dt)

\* _on_gesture_detected, the registered callback, for each call made:
\* root.after(0, lambda: self._execute_gesture_action(gesture, action))
_on_gesture_detected(calls) == pending_actions \o calls

\* _process_gesture_frame, called by _start_gesture_control (timer FALSE) or
\* by the timer that root.after(30, ...) set (timer TRUE).
_process_gesture_frame(timer, dt) ==
    /\ IF timer THEN ~first_poll_due /\ pending_polls > 0 ELSE first_poll_due
    /\ gui_event' = "poll"
    /\ executed' = NoExecution
    /\ first_poll_due' = FALSE
    /\ UNCHANGED <<gestures_enabled, gesture_window, current_font_size>>
    /\ LET left == IF timer THEN pending_polls - 1 ELSE pending_polls
       IN  IF ~gestures_enabled \/ ~gesture_window
           THEN /\ dt = 0
                /\ pending_polls' = left
                /\ no_controller_call
                /\ UNCHANGED pending_actions
           ELSE /\ process_frame(dt)
                /\ pending_actions' = _on_gesture_detected(callbacks')
                /\ pending_polls' = left + 1

\* _start_gesture_control, gestures_enabled being True already: the camera is
\* started, the window created, and _process_gesture_frame called next.
_start_gesture_control(opened, dt) ==
    /\ start_camera(opened, dt)
    /\ IF opened
       THEN /\ gesture_window' = TRUE
            /\ first_poll_due' = TRUE
            /\ gestures_enabled' = TRUE
       ELSE /\ gestures_enabled' = FALSE
            /\ UNCHANGED <<gesture_window, first_poll_due>>
    /\ UNCHANGED pending_polls

\* _stop_gesture_control
_stop_gesture_control(dt) ==
    /\ stop_camera(dt)
    /\ gesture_window' = FALSE

\* toggle_gestures
toggle_gestures(opened, dt) ==
    /\ ~first_poll_due
    /\ gui_event' = "toggle"
    /\ executed' = NoExecution
    /\ UNCHANGED <<pending_actions, current_font_size>>
    /\ IF ~gestures_enabled
       THEN _start_gesture_control(opened, dt)
       ELSE /\ opened
            /\ gestures_enabled' = FALSE
            /\ _stop_gesture_control(dt)
            /\ UNCHANGED <<first_poll_due, pending_polls>>

\* _on_gesture_window_close
_on_gesture_window_close(dt) ==
    /\ ~first_poll_due
    /\ gesture_window
    /\ gui_event' = "close"
    /\ executed' = NoExecution
    /\ gestures_enabled' = FALSE
    /\ _stop_gesture_control(dt)
    /\ UNCHANGED <<first_poll_due, pending_polls, pending_actions,
                   current_font_size>>

\* Mutant: the font grows past the maximum.
font_increased_unbounded == current_font_size + FONT_SIZE_STEP

\* increase_font: the new self.current_font_size
font_increased ==
    IF current_font_size < MAX_FONT_SIZE
    THEN current_font_size + FONT_SIZE_STEP
    ELSE current_font_size

\* decrease_font: the new self.current_font_size
font_decreased ==
    IF current_font_size > MIN_FONT_SIZE
    THEN current_font_size - FONT_SIZE_STEP
    ELSE current_font_size

\* The methods of _execute_gesture_action's actions table; the page and speech
\* methods do not touch the font.
perform(action) ==
    current_font_size' =
        CASE action = "increase_font" -> font_increased
          [] action = "decrease_font" -> font_decreased
          [] OTHER -> current_font_size

\* Mutant: the handler does not look at gestures_enabled.
_execute_gesture_action_unguarded(gesture, action) ==
    /\ executed' = [gesture |-> gesture, action |-> action,
                    performed |-> TRUE, before |-> current_font_size]
    /\ perform(action)

\* _execute_gesture_action(gesture, action)
_execute_gesture_action(gesture, action) ==
    IF ~gestures_enabled
    THEN /\ executed' = [gesture |-> gesture, action |-> action,
                         performed |-> FALSE, before |-> current_font_size]
         /\ UNCHANGED current_font_size
    ELSE /\ executed' = [gesture |-> gesture, action |-> action,
                         performed |-> TRUE, before |-> current_font_size]
         /\ perform(action)

\* The handler that root.after(0, ...) scheduled first runs.
scheduled_action_runs ==
    /\ ~first_poll_due
    /\ pending_actions # <<>>
    /\ gui_event' = "execute"
    /\ pending_actions' = Tail(pending_actions)
    /\ _execute_gesture_action(Head(pending_actions).gesture,
                               Head(pending_actions).action)
    /\ no_controller_call
    /\ UNCHANGED <<gestures_enabled, gesture_window, first_poll_due,
                   pending_polls>>

\* The A+ / A- buttons and the Control-plus / Control-minus shortcuts.
font_button(action) ==
    /\ ~first_poll_due
    /\ gui_event' = "button"
    /\ executed' = [gesture |-> None, action |-> action, performed |-> TRUE,
                    before |-> current_font_size]
    /\ perform(action)
    /\ no_controller_call
    /\ UNCHANGED <<gestures_enabled, gesture_window, first_poll_due,
                   pending_polls, pending_actions>>

-----------------------------------------------------------------------------
(* TTSEngine: the main thread's methods and the playback threads, statement *)
(* by statement.  The reader passes root and on_complete_callback, so both  *)
(* are set.  No statement of the engine touches the controller or the       *)
(* reader.                                                                  *)

\* get_state, of the two flags it reads
get_state(speaking, paused) ==
    IF ~speaking THEN "stopped" ELSE IF paused THEN "paused" ELSE "playing"

\* Thread.is_alive()
is_alive(t) == speech_pc[t] \notin {"unborn", "done"}

\* A thread that join(timeout=1.0) can give up on: it is still in
\* _init_pygame or in the network call of _generate_speech.  Past them it
\* reads should_stop every 0.05 s.
outlasts_join(t) == speech_pc[t] \in {"init", "generate"}

\* if self.speech_thread and self.speech_thread.is_alive():
\*     self.speech_thread.join(timeout=1.0)
join_returns(t) ==
    IF t = NoThread THEN TRUE ELSE ~is_alive(t) \/ outlasts_join(t)

\* Mutant: pause() does not read is_speaking.
pause_guard_any(speaking, paused) == ~paused

\* pause(): if self.is_speaking and not self.is_paused
pause_guard(speaking, paused) == speaking /\ ~paused

\* resume(): if self.is_speaking and self.is_paused
resume_guard(speaking, paused) == speaking /\ paused

\* A statement of the main thread.
main_step(event, next) ==
    /\ tts_event' = event
    /\ main_pc' = next
    /\ single_threaded /\ no_reader /\ no_controller_call
    /\ UNCHANGED <<is_paused_locally, scheduled>>

\* stop(), line 197, called by the reader (call "stop") or by speak()
\* (call "speak"): self.should_stop = True
stop_should_stop(call, text) ==
    /\ main_pc = "idle"
    /\ text => \E t \in SpeechThreads : speech_pc[t] = "unborn"
    /\ main_step("stop", "stop_is_paused")
    /\ main_call' = call
    /\ main_text' = text
    /\ should_stop' = TRUE
    /\ stopped' = stopped \cup {t \in SpeechThreads : is_alive(t)}
    /\ called_in' = None
    /\ returned' = None
    /\ UNCHANGED <<is_speaking, is_paused, speech_thread, speech_pc, music>>

\* stop(), line 198: self.is_paused = False
stop_is_paused ==
    /\ main_pc = "stop_is_paused"
    /\ main_step("stop", "stop_music")
    /\ is_paused' = FALSE
    /\ UNCHANGED <<is_speaking, should_stop, speech_thread, speech_pc, music,
                   main_call, main_text, called_in, returned, stopped>>

\* stop(), lines 200-204: pygame.mixer.music.stop(); unload()
stop_music ==
    /\ main_pc = "stop_music"
    /\ main_step("stop", "stop_join")
    /\ music' = "idle"
    /\ UNCHANGED <<is_speaking, is_paused, should_stop, speech_thread,
                   speech_pc, main_call, main_text, called_in, returned,
                   stopped>>

\* stop(), lines 207-208: the join returns
stop_join ==
    /\ main_pc = "stop_join"
    /\ join_returns(speech_thread)
    /\ main_step("stop", "stop_is_speaking")
    /\ UNCHANGED <<is_speaking, is_paused, should_stop, speech_thread,
                   speech_pc, music, main_call, main_text, called_in,
                   returned, stopped>>

\* stop(), line 210: self.is_speaking = False; then stop() returns, to the
\* reader or to speak(), which sleeps 0.1 s and returns if the text is blank
\* (lines 156-164).
stop_is_speaking ==
    /\ main_pc = "stop_is_speaking"
    /\ main_step("stop",
                 IF main_call = "speak" /\ main_text THEN "speak_should_stop"
                 ELSE "idle")
    /\ is_speaking' = FALSE
    /\ UNCHANGED <<is_paused, should_stop, speech_thread, speech_pc, music,
                   main_call, main_text, called_in, returned, stopped>>

\* speak(), line 166: self.should_stop = False
speak_should_stop ==
    /\ main_pc = "speak_should_stop"
    /\ main_step("speak", "speak_is_paused")
    /\ should_stop' = FALSE
    /\ UNCHANGED <<is_speaking, is_paused, speech_thread, speech_pc, music,
                   main_call, main_text, called_in, returned, stopped>>

\* speak(), line 167: self.is_paused = False
speak_is_paused ==
    /\ main_pc = "speak_is_paused"
    /\ main_step("speak", "speak_is_speaking")
    /\ is_paused' = FALSE
    /\ UNCHANGED <<is_speaking, should_stop, speech_thread, speech_pc, music,
                   main_call, main_text, called_in, returned, stopped>>

\* speak(), line 168: self.is_speaking = True
speak_is_speaking ==
    /\ main_pc = "speak_is_speaking"
    /\ main_step("speak", "speak_start")
    /\ is_speaking' = TRUE
    /\ UNCHANGED <<is_paused, should_stop, speech_thread, speech_pc, music,
                   main_call, main_text, called_in, returned, stopped>>

\* speak(), lines 171-172: a new thread is made self.speech_thread and started
speak_start ==
    /\ main_pc = "speak_start"
    /\ main_step("speak", "idle")
    /\ \E t \in SpeechThreads :
           /\ speech_pc[t] = "unborn"
           /\ \A u \in SpeechThreads : u < t => speech_pc[u] # "unborn"
           /\ speech_thread' = t
           /\ speech_pc' = [speech_pc EXCEPT ![t] = "init"]
    /\ UNCHANGED <<is_speaking, is_paused, should_stop, music, main_call,
                   main_text, called_in, returned, stopped>>

\* pause(), line 176, called by the reader (call "pause") or by toggle_pause
pause(call) ==
    /\ main_pc = "idle"
    /\ main_call' = call
    /\ called_in' = get_state(is_speaking, is_paused)
    /\ IF pause_guard(is_speaking, is_paused)
       THEN /\ main_step("pause", "pause_is_paused")
            /\ returned' = None
       ELSE /\ main_step("pause", "idle")
            /\ returned' = "False"
    /\ UNCHANGED <<is_speaking, is_paused, should_stop, speech_thread,
                   speech_pc, music, main_text, stopped>>

\* pause(), lines 177-178: self.is_paused = True; return True
pause_is_paused ==
    /\ main_pc = "pause_is_paused"
    /\ main_step("pause", "idle")
    /\ is_paused' = TRUE
    /\ returned' = "True"
    /\ UNCHANGED <<is_speaking, should_stop, speech_thread, speech_pc, music,
                   main_call, main_text, called_in, stopped>>

\* resume(), line 183, called by the reader (call "resume") or by toggle_pause
resume(call) ==
    /\ main_pc = "idle"
    /\ main_call' = call
    /\ called_in' = get_state(is_speaking, is_paused)
    /\ IF resume_guard(is_speaking, is_paused)
       THEN /\ main_step("resume", "resume_is_paused")
            /\ returned' = None
       ELSE /\ main_step("resume", "idle")
            /\ returned' = "False"
    /\ UNCHANGED <<is_speaking, is_paused, should_stop, speech_thread,
                   speech_pc, music, main_text, stopped>>

\* resume(), lines 184-185: self.is_paused = False; return True
resume_is_paused ==
    /\ main_pc = "resume_is_paused"
    /\ main_step("resume", "idle")
    /\ is_paused' = FALSE
    /\ returned' = "True"
    /\ UNCHANGED <<is_speaking, should_stop, speech_thread, speech_pc, music,
                   main_call, main_text, called_in, stopped>>

\* toggle_pause
toggle_pause ==
    IF is_paused THEN resume("toggle_pause") ELSE pause("toggle_pause")

\* A statement of playback thread t.
thread_step(t, event, next) ==
    /\ tts_event' = event
    /\ speech_pc' = [speech_pc EXCEPT ![t] = next]
    /\ single_threaded /\ no_reader /\ no_controller_call
    /\ UNCHANGED <<speech_thread, main_pc, main_call, main_text, called_in,
                   returned, stopped, is_paused, should_stop>>

\* _speak_thread_func, line 98: self._init_pygame() quits and reopens the mixer
thread_init_pygame(t) ==
    /\ speech_pc[t] = "init"
    /\ thread_step(t, "init_pygame", "generate")
    /\ music' = "idle"
    /\ UNCHANGED <<is_speaking, is_paused_locally, scheduled>>

\* line 101: asyncio.run(self._generate_speech(text)) returns, or raises and
\* the handler of lines 148-150 sets is_speaking False
thread_generate(t, raises) ==
    /\ speech_pc[t] = "generate"
    /\ IF raises
       THEN /\ thread_step(t, "tts_error", "done")
            /\ is_speaking' = FALSE
       ELSE /\ thread_step(t, "generate", "check_stop")
            /\ UNCHANGED is_speaking
    /\ UNCHANGED <<music, is_paused_locally, scheduled>>

\* lines 103-105: if self.should_stop: self.is_speaking = False; return
thread_check_stop(t) ==
    /\ speech_pc[t] = "check_stop"
    /\ IF should_stop
       THEN /\ thread_step(t, "stopped_before_play", "done")
            /\ is_speaking' = FALSE
       ELSE /\ thread_step(t, "check_stop", "load")
            /\ UNCHANGED is_speaking
    /\ UNCHANGED <<music, is_paused_locally, scheduled>>

\* lines 108-111: music.load(); music.play(); is_paused_locally = False
thread_load(t) ==
    /\ speech_pc[t] = "load"
    /\ thread_step(t, "play", "loop_stop")
    /\ music' = "playing"
    /\ is_paused_locally' = [is_paused_locally EXCEPT ![t] = FALSE]
    /\ UNCHANGED <<is_speaking, scheduled>>

\* lines 115-117: if self.should_stop: music.stop(); break
thread_loop_stop(t) ==
    /\ speech_pc[t] = "loop_stop"
    /\ IF should_stop
       THEN /\ thread_step(t, "loop_stopped", "finished")
            /\ music' = "idle"
       ELSE /\ thread_step(t, "loop", "loop_pause")
            /\ UNCHANGED music
    /\ UNCHANGED <<is_speaking, is_paused_locally, scheduled>>

\* lines 120-130: the pause state is carried to the mixer; a paused thread
\* sleeps and goes round again
thread_loop_pause(t) ==
    /\ speech_pc[t] = "loop_pause"
    /\ LET locally == is_paused_locally[t]
           now_locally == IF is_paused /\ ~locally THEN TRUE
                          ELSE IF ~is_paused /\ locally THEN FALSE
                          ELSE locally
       IN  /\ is_paused_locally' = [is_paused_locally EXCEPT ![t] = now_locally]
           /\ music' = IF is_paused /\ ~locally /\ music = "playing"
                       THEN "paused"
                       ELSE IF ~is_paused /\ locally /\ music = "paused"
                       THEN "playing"
                       ELSE music
           /\ thread_step(t, "loop",
                          IF now_locally THEN "loop_stop" ELSE "loop_busy")
    /\ UNCHANGED <<is_speaking, scheduled>>

\* lines 133-136: if not music.get_busy(): break; else sleep and go round
thread_loop_busy(t) ==
    /\ speech_pc[t] = "loop_busy"
    /\ thread_step(t, "loop",
                   IF music # "playing" THEN "finished" ELSE "loop_stop")
    /\ UNCHANGED <<is_speaking, music, is_paused_locally, scheduled>>

\* line 139: self.is_speaking = False
thread_finished(t) ==
    /\ speech_pc[t] = "finished"
    /\ thread_step(t, "finished", "callback")
    /\ is_speaking' = FALSE
    /\ UNCHANGED <<music, is_paused_locally, scheduled>>

\* lines 142-146: if ... not self.should_stop: self.root.after(0, callback)
thread_callback(t) ==
    /\ speech_pc[t] = "callback"
    /\ thread_step(t, "callback", "done")
    /\ scheduled' = IF ~should_stop THEN scheduled \cup {t} ELSE scheduled
    /\ UNCHANGED <<is_speaking, music, is_paused_locally>>

\* The audio that is playing reaches its end: get_busy() is False from then on.
music_ends ==
    /\ music = "playing"
    /\ music' = "idle"
    /\ tts_event' = "music_ends"
    /\ single_threaded /\ no_reader /\ no_controller_call
    /\ UNCHANGED <<is_speaking, is_paused, should_stop, speech_thread,
                   speech_pc, is_paused_locally, main_pc, main_call,
                   main_text, called_in, returned, stopped, scheduled>>

-----------------------------------------------------------------------------
(* Actions and specifications *)

\* _get_stable_gesture(current_gesture) on its own: append, then the majority.
get_stable_gesture_call(current_gesture) ==
    /\ frame' = "stabilize"
    /\ hand_landmarks' = None
    /\ frame_thumb_dir' = None
    /\ frame_fingers' = None
    /\ detected_gesture' = current_gesture
    /\ gesture_history' = deque_append(gesture_history, current_gesture)
    /\ stable_gesture' = stable_of(gesture_history')
    /\ no_callback
    /\ UNCHANGED <<last_triggered_gesture, last_gesture_time, is_running, now,
                   cb_reset>>

StabilizerLabels == {"thumbs_up", "peace", None}

HandFrame ==
    single_threaded /\ no_reader /\ no_tts /\
    \E dt \in 0..MaxDt : \E lm \in FrameHands : process_frame_hand(lm, dt)
TwoGestureFrame ==
    single_threaded /\ no_reader /\ no_tts /\
    \E dt \in 0..MaxDt : \E lm \in TwoGestureHands : process_frame_hand(lm, dt)
NoHandFrame ==
    single_threaded /\ no_reader /\ no_tts /\ \E dt \in 0..MaxDt : process_frame_no_hand(dt)
NoFrame ==
    single_threaded /\ no_reader /\ no_tts /\ \E dt \in 0..MaxDt : process_frame_no_frame(dt)
GateCall ==
    single_threaded /\ no_reader /\ no_tts /\
    \E dt \in 0..MaxDt : \E g \in GateLabels : trigger_gesture_call(g, dt)
StartCamera ==
    single_threaded /\ no_reader /\ no_tts /\
    \E dt \in (TicksPerSecond \div 2)..MaxDt : \E opened \in BOOLEAN :
        start_camera(opened, dt)
StopCamera ==
    single_threaded /\ no_reader /\ no_tts /\ \E dt \in 0..MaxDt : stop_camera(dt)
HoldFrame ==
    single_threaded /\ no_reader /\ no_tts /\ \E dt \in 0..MaxDt : process_frame_hand(ThumbsUpHand, dt)
Classify ==
    single_threaded /\ no_reader /\ no_tts /\ classify_call(hand_landmarks)

\* The polling loop over frames of one gesture and of no gesture.
Next == StartCamera \/ HandFrame \/ NoHandFrame \/ NoFrame
Spec == Init /\ [][Next]_vars

\* The polling loop over frames of two gestures.
NextTwo == StartCamera \/ TwoGestureFrame \/ NoHandFrame \/ NoFrame
SpecTwo == Init /\ [][NextTwo]_vars

\* The gate alone, fed every label, between hand losses.
NextGate == StartCamera \/ GateCall \/ NoHandFrame
SpecGate == Init /\ [][NextGate]_vars

\* The polling loop with gesture sensing stopped and started again.
NextRestart == StartCamera \/ StopCamera \/ HandFrame \/ NoHandFrame \/ NoFrame
SpecRestart == Init /\ [][NextRestart]_vars

\* The polling loop, which never stops polling, over frames of one held
\* gesture.
NextHold == StartCamera \/ HoldFrame \/ NoHandFrame \/ NoFrame
SpecHold == Init /\ [][NextHold]_vars /\ WF_vars(HoldFrame)

\* A held thumbs_up with a registered callback that can raise; the caller goes
\* on calling process_frame after an exception.
InitFailing ==
    /\ gesture_history = <<>>
    /\ last_triggered_gesture = None
    /\ last_gesture_time = 0
    /\ is_running = FALSE
    /\ now = StartTime
    /\ frame = "init"
    /\ hand_landmarks = None
    /\ frame_thumb_dir = None
    /\ frame_fingers = None
    /\ stable_gesture = None
    /\ detected_gesture = None
    /\ callbacks = <<>>
    /\ prior = NoPrior
    /\ cb_gesture = None
    /\ cb_time = -1
    /\ cb_reset = FALSE
    /\ callback_may_raise = TRUE
    /\ cb_raised = FALSE
    /\ cb_seen = NoSeen
    /\ threads_idle
    /\ mutex = FALSE
    /\ reader_constructed
    /\ tts_constructed
NextFailing == StartCamera \/ HoldFrame \/ NoHandFrame \/ NoFrame
SpecFailing == InitFailing /\ [][NextFailing]_vars

\* Every gesture, each shown steadily: the hand keeps its pose from one
\* hand-present frame to the next and changes it out of the camera's view.
SteadyFrame ==
    single_threaded /\ no_reader /\ no_tts /\
    \E dt \in 0..MaxDt : \E lm \in SixGestureHands :
        /\ frame = "hand" => lm = hand_landmarks
        /\ process_frame_hand(lm, dt)
NextSteady == StartCamera \/ SteadyFrame \/ NoHandFrame
SpecSteady == Init /\ [][NextSteady]_vars

\* The reader: its handlers run one at a time, in any order the event loop
\* can take them.
ToggleGestures ==
    single_threaded /\ no_tts /\
    \E opened \in BOOLEAN : \E dt \in {TicksPerSecond \div 2} :
        toggle_gestures(opened, dt)
GestureWindowClose == single_threaded /\ no_tts /\ _on_gesture_window_close(0)
FirstPoll ==
    single_threaded /\ no_tts /\ \E dt \in 0..MaxDt : _process_gesture_frame(FALSE, dt)
TimerPoll ==
    single_threaded /\ no_tts /\ \E dt \in 0..MaxDt : _process_gesture_frame(TRUE, dt)
ScheduledActionRuns == single_threaded /\ no_tts /\ scheduled_action_runs
FontButton ==
    single_threaded /\ no_tts /\
    \E action \in {"increase_font", "decrease_font"} : font_button(action)
NextReader ==
    \/ ToggleGestures
    \/ GestureWindowClose
    \/ FirstPoll
    \/ TimerPoll
    \/ ScheduledActionRuns
SpecReader == Init /\ [][NextReader]_vars

\* The reader with its font buttons and shortcuts.
NextFont ==
    \/ ToggleGestures
    \/ FirstPoll
    \/ TimerPoll
    \/ ScheduledActionRuns
    \/ FontButton
SpecFont == Init /\ [][NextFont]_vars

\* The stabilizer fed every sequence of two gestures and None.
GetStableGesture ==
    single_threaded /\ no_reader /\ no_tts /\
    \E current_gesture \in StabilizerLabels :
        get_stable_gesture_call(current_gesture)
NextStabilizer == GetStableGesture
SpecStabilizer == Init /\ [][NextStabilizer]_vars

\* Two threads calling the gate, with or without a lock around each call.
InitThreads ==
    /\ gesture_history = <<>>
    /\ last_triggered_gesture = None
    /\ last_gesture_time = 0
    /\ is_running = FALSE
    /\ now = StartTime
    /\ frame = "init"
    /\ hand_landmarks = None
    /\ frame_thumb_dir = None
    /\ frame_fingers = None
    /\ stable_gesture = None
    /\ detected_gesture = None
    /\ callbacks = <<>>
    /\ prior = NoPrior
    /\ cb_gesture = None
    /\ cb_time = -1
    /\ cb_reset = FALSE
    /\ callback_may_raise = FALSE
    /\ cb_raised = FALSE
    /\ cb_seen = NoSeen
    /\ threads_idle
    /\ mutex \in BOOLEAN
    /\ reader_constructed
    /\ tts_constructed
GateEnter ==
    \E t \in Threads : \E g \in ThreadLabels : \E dt \in 0..MaxDt :
        gate_enter(t, g, dt)
GateCheckCooldown == \E t \in Threads : gate_check_cooldown(t)
GateCheckRepeat == \E t \in Threads : gate_check_repeat(t)
GateSetGesture == \E t \in Threads : gate_set_gesture(t)
GateSetTime == \E t \in Threads : gate_set_time(t)
GateCallback == \E t \in Threads : gate_callback(t)
NextThreads ==
    \/ GateEnter
    \/ GateCheckCooldown
    \/ GateCheckRepeat
    \/ GateSetGesture
    \/ GateSetTime
    \/ GateCallback
SpecThreads == InitThreads /\ [][NextThreads]_vars

\* The classifier alone, given one landmark set of a grid.
InitGeometry ==
    /\ gesture_history = <<>>
    /\ last_triggered_gesture = None
    /\ last_gesture_time = 0
    /\ is_running = FALSE
    /\ now = StartTime
    /\ frame = "init"
    /\ hand_landmarks \in GridHands
    /\ frame_thumb_dir = None
    /\ frame_fingers = None
    /\ stable_gesture = None
    /\ detected_gesture = None
    /\ callbacks = <<>>
    /\ prior = NoPrior
    /\ cb_gesture = None
    /\ cb_time = -1
    /\ cb_reset = FALSE
    /\ callback_may_raise = FALSE
    /\ cb_raised = FALSE
    /\ cb_seen = NoSeen
    /\ threads_idle
    /\ mutex = FALSE
    /\ reader_constructed
    /\ tts_constructed
NextGeometry == Classify
SpecGeometry == InitGeometry /\ [][NextGeometry]_vars

\* The engine: the reader's calls on the main thread, one method at a time,
\* interleaved with the statements of the playback threads.
Speak == \E text \in BOOLEAN : stop_should_stop("speak", text)
Stop == stop_should_stop("stop", FALSE)
StopStep ==
    stop_is_paused \/ stop_music \/ stop_join \/ stop_is_speaking
SpeakStep ==
    speak_should_stop \/ speak_is_paused \/ speak_is_speaking \/ speak_start
Pause == pause("pause") \/ pause_is_paused
Resume == resume("resume") \/ resume_is_paused
PlaybackThread ==
    \E t \in SpeechThreads :
        \/ thread_init_pygame(t)
        \/ \E raises \in BOOLEAN : thread_generate(t, raises)
        \/ thread_check_stop(t)
        \/ thread_load(t)
        \/ thread_loop_stop(t)
        \/ thread_loop_pause(t)
        \/ thread_loop_busy(t)
        \/ thread_finished(t)
        \/ thread_callback(t)
NextTTS ==
    \/ Speak
    \/ Stop
    \/ StopStep
    \/ SpeakStep
    \/ Pause
    \/ Resume
    \/ toggle_pause
    \/ PlaybackThread
    \/ music_ends
SpecTTS == Init /\ [][NextTTS]_vars

-----------------------------------------------------------------------------
(* Properties *)

\* The number of entries of history that are label.
Occurrences(history, label) ==
    Cardinality({i \in 1..Len(history) : history[i] = label})

\* C1: any two callbacks are at least the cooldown apart: a gate call whose
\* elapsed time since the last dispatch is below the cooldown invokes no
\* callback, whatever the label and also after a hand loss, and an elapsed time
\* equal to the cooldown does not suppress a label that differs from the last
\* dispatched one.
C1_CooldownBetweenCallbacks ==
    [][/\ (callbacks' # <<>> /\ cb_time # -1) => now' - cb_time >= GESTURE_COOLDOWN
       /\ (/\ frame' = "hand"
           /\ stable_gesture' # None
           /\ now' - last_gesture_time < GESTURE_COOLDOWN) => callbacks' = <<>>
       /\ (/\ frame' = "hand"
           /\ stable_gesture' \notin {None, last_triggered_gesture}
           /\ now' - last_gesture_time = GESTURE_COOLDOWN) => callbacks' # <<>>
      ]_vars

\* C1 witness: a stabilized gesture other than the last dispatched one has met
\* the gate inside the cooldown and produced no callback.
C1_SuppressedInsideCooldown ==
    /\ frame = "hand"
    /\ last_triggered_gesture # None
    /\ stable_gesture \notin {None, last_triggered_gesture}
    /\ now - last_gesture_time < GESTURE_COOLDOWN
    /\ callbacks = <<>>

\* C2: a callback never carries the label of the callback before it unless a
\* no-hand frame came between them, and a stabilized label equal to the last
\* dispatched one produces no callback however long it is held.
C2_NoRepeatedLabel ==
    [][/\ \A i \in 1..Len(callbacks') :
              callbacks'[i].gesture = cb_gesture => cb_reset
       /\ (/\ frame' = "hand"
           /\ stable_gesture' # None
           /\ stable_gesture' = last_triggered_gesture) => callbacks' = <<>>
      ]_vars

\* C2 witness: the dispatched gesture is still the stabilized one after the
\* cooldown has elapsed, and the frame made no callback.
C2_HeldGestureNotRepeated ==
    /\ frame = "hand"
    /\ stable_gesture # None
    /\ stable_gesture = last_triggered_gesture
    /\ now - last_gesture_time >= GESTURE_COOLDOWN
    /\ callbacks = <<>>

\* C3 as stated: once g has been dispatched, a stabilized None with the hand
\* still present clears the last-dispatched memory, so g is dispatched again
\* when it stabilizes next with the cooldown elapsed.
C3_NoneClearsMemory ==
    [][(/\ frame = "hand" /\ stable_gesture = None
        /\ cb_gesture # None /\ ~cb_reset
        /\ frame' = "hand" /\ stable_gesture' = cb_gesture
        /\ now' - last_gesture_time >= GESTURE_COOLDOWN) => callbacks' # <<>>
      ]_vars

\* C3 as amended: a stabilized None with the hand still present leaves the
\* last-dispatched label and timestamp as they are, so g is not dispatched
\* again when it stabilizes next, cooldown elapsed or not.
C3_NoneKeepsMemory ==
    [][/\ (frame' = "hand" /\ stable_gesture' = None) =>
              UNCHANGED <<last_triggered_gesture, last_gesture_time>>
       /\ (/\ frame = "hand" /\ stable_gesture = None
           /\ cb_gesture # None /\ ~cb_reset
           /\ frame' = "hand" /\ stable_gesture' = cb_gesture) =>
              /\ callbacks' = <<>>
              /\ last_triggered_gesture' = cb_gesture
      ]_vars

\* C3 witness: the dispatched gesture has stabilized again, cooldown elapsed,
\* right after a hand-present frame whose stabilized label was None (the
\* history less its newest entry), and the frame made no callback.
C3_RestabilizedNotRedispatched ==
    /\ frame = "hand"
    /\ Len(gesture_history) \in 6..9
    /\ stable_of(SubSeq(gesture_history, 1, Len(gesture_history) - 1)) = None
    /\ stable_gesture = "thumbs_up"
    /\ last_triggered_gesture = "thumbs_up"
    /\ cb_gesture = "thumbs_up" /\ ~cb_reset
    /\ now - last_gesture_time >= GESTURE_COOLDOWN
    /\ callbacks = <<>>

\* C4: a no-hand frame empties the history, a hand-present frame whose raw
\* label is None appends one None, and so each of the first four hand-present
\* frames after a no-hand frame has the stabilized label None.
C4_NoHandClearsHistory ==
    [][/\ frame' = "no_hand" => gesture_history' = <<>>
       /\ frame' = "no_frame" => gesture_history' = gesture_history
       /\ (/\ frame' = "hand" /\ detected_gesture' = None
           /\ Len(gesture_history) < HISTORY_MAXLEN) =>
              gesture_history' = Append(gesture_history, None)
       /\ frame' = "hand" =>
              Len(gesture_history') =
                  IF Len(gesture_history) < HISTORY_MAXLEN
                  THEN Len(gesture_history) + 1 ELSE HISTORY_MAXLEN
       /\ (frame' = "hand" /\ Len(gesture_history') <= 4) =>
              stable_gesture' = None /\ callbacks' = <<>>
      ]_vars

\* C4 witness: thumbs_up was dispatched, the hand was lost, and the fourth
\* hand-present frame since, three of them thumbs_up, has no stabilized label.
C4_ColdAfterHandLoss ==
    /\ frame = "hand"
    /\ gesture_history = <<"thumbs_up", None, "thumbs_up", "thumbs_up">>
    /\ stable_gesture = None
    /\ cb_gesture = "thumbs_up" /\ cb_reset

\* C5: a no-hand frame sets the last-dispatched label to None and keeps the
\* timestamp, so the gesture of the last callback is dispatched again when it
\* stabilizes after a no-hand frame with the cooldown elapsed.
C5_RedispatchAfterHandLoss ==
    [][/\ frame' = "no_hand" =>
              /\ last_triggered_gesture' = None
              /\ last_gesture_time' = last_gesture_time
       /\ (/\ frame' = "hand"
           /\ stable_gesture' # None
           /\ stable_gesture' = cb_gesture /\ cb_reset
           /\ now' - cb_time >= GESTURE_COOLDOWN) =>
              /\ Len(callbacks') = 1
              /\ callbacks'[1].gesture = cb_gesture
              /\ last_triggered_gesture' = cb_gesture
      ]_vars

\* C5 witness: a callback for the gesture of the callback before it, a no-hand
\* frame having come between the two.
C5_DispatchedAgain ==
    /\ frame = "hand"
    /\ callbacks # <<>>
    /\ prior.gesture = callbacks[1].gesture
    /\ prior.reset

\* C6: a hand-present frame that leaves fewer than 5 samples in the history has
\* the stabilized label None whatever the samples are, and keeps its sample:
\* four samples of one gesture and a fifth of the same give that gesture.
C6_ColdStart ==
    [][/\ (frame' = "hand" /\ Len(gesture_history') < 5) =>
              /\ stable_gesture' = None
              /\ callbacks' = <<>>
              /\ gesture_history' = Append(gesture_history, detected_gesture')
       /\ (/\ frame' = "hand"
           /\ Len(gesture_history) = 4
           /\ detected_gesture' # None
           /\ \A i \in 1..4 : gesture_history[i] = detected_gesture') =>
              stable_gesture' = detected_gesture'
      ]_vars

\* C6 witness: four samples, all thumbs_up, and no stabilized label.
C6_FourSamplesNoStable ==
    /\ frame = "hand"
    /\ gesture_history = <<"thumbs_up", "thumbs_up", "thumbs_up", "thumbs_up">>
    /\ stable_gesture = None

\* C7: with at least 5 samples the stabilized label is L exactly when L is a
\* label other than None that fills at least 60% of the history's current
\* length, and is None when there is no such label.
C7_MajorityThreshold ==
    (frame = "hand" /\ Len(gesture_history) >= 5) =>
        LET n == Len(gesture_history)
            labels == {gesture_history[i] : i \in 1..n} \ {None}
            winners == {L \in labels : 10 * Occurrences(gesture_history, L) >= 6 * n}
        IN  /\ \A L \in labels : (stable_gesture = L) <=> (L \in winners)
            /\ (stable_gesture = None) <=> (winners = {})
            /\ stable_gesture \in labels \cup {None}

\* C7 witness: 6 thumbs_up and 4 None in a full history stabilize thumbs_up.
C7_SixOfTen ==
    /\ frame = "hand"
    /\ Len(gesture_history) = 10
    /\ Occurrences(gesture_history, "thumbs_up") = 6
    /\ Occurrences(gesture_history, None) = 4
    /\ stable_gesture = "thumbs_up"

\* C8: the history never holds more than 10 entries; a hand-present frame
\* appends its raw label, None included, and drops exactly the oldest entry
\* when the history was full; no other frame adds an entry.
C8_BoundedFifo ==
    [][/\ Len(gesture_history') <= 10
       /\ frame' = "hand" =>
              gesture_history' =
                  IF Len(gesture_history) < 10
                  THEN gesture_history \o <<detected_gesture'>>
                  ELSE SubSeq(gesture_history, 2, 10) \o <<detected_gesture'>>
       /\ frame' # "hand" => gesture_history' \in {gesture_history, <<>>}
      ]_vars

\* C8 witness: ten None samples fill the history of a hand whose thumbs_up was
\* dispatched: the thumbs_up samples have been dropped from the full history.
C8_OldestEvicted ==
    /\ frame = "hand"
    /\ gesture_history = [i \in 1..10 |-> None]
    /\ last_triggered_gesture = "thumbs_up"

\* The Action Mapping of the six gestures of the vocabulary.
ActionMapping ==
    [thumbs_up   |-> "increase_font",
     thumbs_down |-> "decrease_font",
     open_palm   |-> "toggle_tts",
     fist        |-> "stop_tts",
     point_up    |-> "next_page",
     peace       |-> "previous_page"]

\* C9: a gate call with one of the six gestures, the cooldown elapsed and the
\* label different from the last dispatched one, records the label and the
\* current time and makes exactly one callback, with the gesture's action.
C9_DispatchRecordsAndCalls ==
    [][(/\ frame' \in {"gate", "hand"}
        /\ stable_gesture' \in DOMAIN ActionMapping
        /\ now' - last_gesture_time >= GESTURE_COOLDOWN
        /\ stable_gesture' # last_triggered_gesture) =>
           /\ last_triggered_gesture' = stable_gesture'
           /\ last_gesture_time' = now'
           /\ callbacks' = <<[gesture |-> stable_gesture',
                              action |-> ActionMapping[stable_gesture']]>>
      ]_vars

\* C9 witness: the gate has dispatched point_up: one callback with next_page.
C9_PointUpDispatched ==
    /\ frame = "gate"
    /\ callbacks = <<[gesture |-> "point_up", action |-> "next_page"]>>
    /\ last_triggered_gesture = "point_up"
    /\ last_gesture_time = now

\* C10: a label without an action that passes the cooldown and the repeat
\* check makes no callback and still becomes the last dispatched label, with
\* the current time as the dispatch time; the next call with it, or any call
\* inside the new cooldown, changes nothing.
C10_UnmappedLabelRecorded ==
    [][/\ (/\ frame' = "gate"
           /\ stable_gesture' \notin DOMAIN GESTURE_ACTIONS
           /\ now' - last_gesture_time >= GESTURE_COOLDOWN
           /\ stable_gesture' # last_triggered_gesture) =>
              /\ callbacks' = <<>>
              /\ last_triggered_gesture' = stable_gesture'
              /\ last_gesture_time' = now'
       /\ (/\ frame' = "gate"
           /\ last_triggered_gesture \notin DOMAIN GESTURE_ACTIONS \cup {None}
           /\ \/ stable_gesture' = last_triggered_gesture
              \/ now' - last_gesture_time < GESTURE_COOLDOWN) =>
              /\ callbacks' = <<>>
              /\ UNCHANGED <<last_triggered_gesture, last_gesture_time>>
      ]_vars

\* C10 witness: the gate was called with wave after thumbs_up had been
\* dispatched with a callback: wave is the last dispatched label, the dispatch
\* time is the current time, and no callback was made.
C10_WaveRecorded ==
    /\ frame = "gate"
    /\ stable_gesture = "wave"
    /\ last_triggered_gesture = "wave"
    /\ last_gesture_time = now
    /\ cb_gesture = "thumbs_up"
    /\ cb_time < now
    /\ callbacks = <<>>

\* C11: the last-dispatch timestamp changes only in a dispatch (a gate call
\* that passes the cooldown and the repeat check), the last-dispatched label
\* only in a dispatch or in a no-hand frame, which sets it to None; a gate call
\* suppressed by either check changes neither, and a no-hand frame keeps the
\* timestamp.
C11_DispatchStateFrame ==
    [][LET called == frame' = "hand" /\ stable_gesture' # None
           suppressed == \/ now' - last_gesture_time < GESTURE_COOLDOWN
                         \/ stable_gesture' = last_triggered_gesture
       IN  /\ last_gesture_time' # last_gesture_time =>
                  called /\ ~suppressed /\ last_gesture_time' = now'
           /\ last_triggered_gesture' # last_triggered_gesture =>
                  \/ called /\ ~suppressed
                     /\ last_triggered_gesture' = stable_gesture'
                  \/ frame' = "no_hand" /\ last_triggered_gesture' = None
           /\ (called /\ suppressed) =>
                  UNCHANGED <<last_triggered_gesture, last_gesture_time>>
           /\ frame' = "no_hand" => last_gesture_time' = last_gesture_time
      ]_vars

\* C11 witness: after a dispatch and a no-hand frame, a stabilized gesture has
\* met the gate inside the cooldown: the label is still None and the timestamp
\* still that of the dispatch.
C11_SuppressedAfterHandLoss ==
    /\ frame = "hand"
    /\ stable_gesture # None
    /\ cb_reset
    /\ last_triggered_gesture = None
    /\ last_gesture_time = cb_time
    /\ now - last_gesture_time < GESTURE_COOLDOWN
    /\ now > last_gesture_time

\* C12: once gesture sensing has been stopped and started again, the history
\* is empty and the last-dispatched label is None.
C12_RestartResets ==
    (frame = "start" /\ is_running) =>
        /\ gesture_history = <<>>
        /\ last_triggered_gesture = None

-----------------------------------------------------------------------------
(* The landmark set of the frame in the words of the specification *)

Classified == frame \in {"classify", "hand"}

\* wrist.y - thumb_tip.y and |thumb_tip.x - wrist.x|, in hundredths.
VerticalDiff == hand_landmarks[0].y - hand_landmarks[4].y
HorizontalDiff ==
    IF hand_landmarks[4].x >= hand_landmarks[0].x
    THEN hand_landmarks[4].x - hand_landmarks[0].x
    ELSE hand_landmarks[0].x - hand_landmarks[4].x

\* TIP above PIP, for the index (8, 6), middle (12, 10), ring (16, 14) and
\* pinky (20, 18) fingers.
IndexExtended == hand_landmarks[8].y < hand_landmarks[6].y
MiddleExtended == hand_landmarks[12].y < hand_landmarks[10].y
RingExtended == hand_landmarks[16].y < hand_landmarks[14].y
PinkyExtended == hand_landmarks[20].y < hand_landmarks[18].y
AllFourCurled ==
    ~IndexExtended /\ ~MiddleExtended /\ ~RingExtended /\ ~PinkyExtended
AllFourExtended ==
    IndexExtended /\ MiddleExtended /\ RingExtended /\ PinkyExtended

Orientation ==
    IF VerticalDiff > 15 THEN "up"
    ELSE IF VerticalDiff < -10 THEN "down"
    ELSE IF HorizontalDiff > 12 THEN "side"
    ELSE "curled"

\* The thumb tip within 0.15, on both axes, of the average of the index MCP (5)
\* and the wrist (0): twice the distances are below 0.30.
ThumbTucked ==
    LET dx2 == 2 * hand_landmarks[4].x - (hand_landmarks[5].x + hand_landmarks[0].x)
        dy2 == 2 * hand_landmarks[4].y - (hand_landmarks[5].y + hand_landmarks[0].y)
    IN  -30 < dx2 /\ dx2 < 30 /\ -30 < dy2 /\ dy2 < 30

FistTest ==
    AllFourCurled /\ (ThumbTucked \/ (-12 < VerticalDiff /\ VerticalDiff < 12))

\* C13: with all four fingers curled the classifier returns thumbs_up whenever
\* vertical_diff > 0.15 and thumbs_down whenever vertical_diff < -0.10, and so
\* never fist, whether or not the thumb passes the fist's tucked test.
C13_ThumbBeforeFist ==
    (Classified /\ AllFourCurled) =>
        /\ VerticalDiff > 15 => detected_gesture = "thumbs_up"
        /\ VerticalDiff < -10 => detected_gesture = "thumbs_down"
        /\ (VerticalDiff > 15 \/ VerticalDiff < -10) => detected_gesture # "fist"

\* C13 witness: a curled hand whose thumb tip is above the wrist by more than
\* 0.15 and also within 0.15 of the palm centre is classified thumbs_up.
C13_TuckedThumbUp ==
    /\ frame = "classify"
    /\ AllFourCurled
    /\ VerticalDiff > 15
    /\ ThumbTucked
    /\ detected_gesture = "thumbs_up"

\* C14: the classifier returns the first match of thumbs_up, thumbs_down,
\* point_up, peace, open_palm, fist, and None when nothing matches.
C14_FirstMatchWins ==
    Classified =>
        detected_gesture =
            IF AllFourCurled /\ Orientation = "up" THEN "thumbs_up"
            ELSE IF AllFourCurled /\ Orientation = "down" THEN "thumbs_down"
            ELSE IF IndexExtended /\ ~MiddleExtended /\ ~RingExtended
                    /\ ~PinkyExtended THEN "point_up"
            ELSE IF IndexExtended /\ MiddleExtended /\ ~RingExtended
                    /\ ~PinkyExtended THEN "peace"
            ELSE IF AllFourExtended /\ Orientation \in {"up", "side"}
                 THEN "open_palm"
            ELSE IF FistTest THEN "fist"
            ELSE None

\* C14 witness: all four fingers extended and the thumb down: no gesture.
C14_OpenHandThumbDown ==
    /\ frame = "classify"
    /\ AllFourExtended
    /\ Orientation = "down"
    /\ detected_gesture = None

\* C15: the thumb orientation is up iff vertical_diff > 0.15, else down iff
\* vertical_diff < -0.10, else side iff horizontal_diff > 0.12, else curled,
\* every comparison strict.
C15_ThumbOrientation ==
    Classified =>
        /\ frame_thumb_dir \in {"up", "down", "side", "curled"}
        /\ frame_thumb_dir = "up" <=> VerticalDiff > 15
        /\ frame_thumb_dir = "down" <=> (VerticalDiff <= 15 /\ VerticalDiff < -10)
        /\ frame_thumb_dir = "side" <=>
               (-10 <= VerticalDiff /\ VerticalDiff <= 15 /\ HorizontalDiff > 12)
        /\ frame_thumb_dir = "curled" <=>
               (-10 <= VerticalDiff /\ VerticalDiff <= 15 /\ HorizontalDiff <= 12)

\* C15 witness: vertical_diff exactly 0.15 and horizontal_diff exactly 0.12
\* give curled.
C15_OnBothThresholds ==
    /\ frame = "classify"
    /\ VerticalDiff = 15
    /\ HorizontalDiff = 12
    /\ frame_thumb_dir = "curled"

\* C16: the fist test holds exactly when all four fingers are curled and the
\* thumb tip is strictly within 0.15 of the palm centre on both axes or
\* strictly within 0.12 of the wrist vertically; the classifier returns fist
\* only when the test holds and the thumb is neither up nor down.
C16_FistTest ==
    Classified =>
        /\ _is_fist(hand_landmarks, frame_fingers) <=> FistTest
        /\ detected_gesture = "fist" =>
               FistTest /\ frame_thumb_dir \notin {"up", "down"}

\* C16 witness: a fist by the tucked thumb alone, the thumb tip 0.12 or more
\* above the wrist.
C16_FistByTuckedThumb ==
    /\ frame = "classify"
    /\ ThumbTucked
    /\ VerticalDiff >= 12
    /\ detected_gesture = "fist"

\* C17: the index finger alone extended is point_up, and the index and middle
\* fingers alone extended are peace, wherever the thumb is.
C17_ThumbIrrelevant ==
    Classified =>
        /\ (IndexExtended /\ ~MiddleExtended /\ ~RingExtended /\ ~PinkyExtended)
               => detected_gesture = "point_up"
        /\ (IndexExtended /\ MiddleExtended /\ ~RingExtended /\ ~PinkyExtended)
               => detected_gesture = "peace"

\* C17 witness: point_up with the thumb up.
C17_PointUpThumbUp ==
    /\ frame = "classify"
    /\ frame_thumb_dir = "up"
    /\ IndexExtended /\ ~MiddleExtended /\ ~RingExtended /\ ~PinkyExtended
    /\ detected_gesture = "point_up"

\* C18: each finger is reported extended exactly when its TIP is strictly
\* above its PIP, whatever the other landmarks are.
C18_FingerExtended ==
    Classified =>
        /\ frame_fingers.index = IndexExtended
        /\ frame_fingers.middle = MiddleExtended
        /\ frame_fingers.ring = RingExtended
        /\ frame_fingers.pinky = PinkyExtended

\* C18 witness: the index tip level with its PIP joint is curled, next to an
\* extended middle finger.
C18_LevelTipIsCurled ==
    /\ frame = "classify"
    /\ hand_landmarks[8].y = hand_landmarks[6].y
    /\ ~frame_fingers.index
    /\ frame_fingers.middle

\* C19: the gate is level-triggered: on every hand frame whose stabilized label
\* differs from the label of the last callback and whose time is a cooldown or
\* more after that callback, the callback is made for the stabilized label,
\* however long the label had already been stabilized inside the cooldown.
C19_LevelTriggered ==
    [][(/\ frame' = "hand"
        /\ stable_gesture' # None
        /\ stable_gesture' # cb_gesture
        /\ now' - cb_time >= GESTURE_COOLDOWN) =>
           callbacks' = <<[gesture |-> stable_gesture',
                           action |-> ActionMapping[stable_gesture']]>>
      ]_vars

\* C19 witness: a callback for a label that the frame before had already
\* stabilized, when it was suppressed inside the cooldown of another label.
C19_DispatchedAfterWaiting ==
    /\ frame = "hand"
    /\ callbacks # <<>>
    /\ callbacks[1].gesture = stable_gesture
    /\ prior.gesture \notin {None, stable_gesture}
    /\ ~prior.reset
    /\ now - prior.time >= GESTURE_COOLDOWN
    /\ Len(gesture_history) \in 2..(HISTORY_MAXLEN - 1)
    /\ stable_of(SubSeq(gesture_history, 1, Len(gesture_history) - 1))
           = stable_gesture

C21_StableNoneIsNoOp ==
    [][(frame' = "hand" /\ stable_gesture' = None) =>
           /\ callbacks' = <<>>
           /\ last_triggered_gesture' = last_triggered_gesture
           /\ last_gesture_time' = last_gesture_time
      ]_vars

\* C21 witness: past the cold start, a hand-present frame without a stabilized
\* label, the dispatch of thumbs_up still remembered with its time.
C21_NoneAfterDispatch ==
    /\ frame = "hand"
    /\ Len(gesture_history) >= 5
    /\ stable_gesture = None
    /\ callbacks = <<>>
    /\ last_triggered_gesture = "thumbs_up"
    /\ last_gesture_time = cb_time
    /\ last_gesture_time < now

\* C22: a frame whose read fails while the camera is running is treated as a
\* frame without a hand: the history is emptied and the last triggered gesture
\* is reset to None.
C22_FailedReadIsNoHand ==
    [][(is_running /\ frame' = "no_frame") =>
           /\ gesture_history' = <<>>
           /\ last_triggered_gesture' = None
      ]_vars

\* C23: the callback is called inside the frame's processing with the dispatch
\* state already updated: it finds the last triggered gesture equal to its
\* gesture and the time recorded; after a callback that raised, a later frame
\* with the same gesture still held makes no second callback.
C23_StateUpdatedBeforeCallback ==
    [][/\ callbacks' # <<>> =>
              /\ cb_seen'.gesture = callbacks'[1].gesture
              /\ cb_seen'.time = now'
              /\ last_triggered_gesture' = callbacks'[1].gesture
              /\ last_gesture_time' = now'
       /\ (/\ cb_raised /\ ~cb_reset
           /\ frame' = "hand" /\ stable_gesture' = cb_gesture) =>
              callbacks' = <<>>
      ]_vars

\* C23 witness: thumbs_up still held a cooldown or more after its callback
\* raised, and no callback made.
C23_FailedCallbackNotRetried ==
    /\ cb_raised /\ ~cb_reset
    /\ frame = "hand"
    /\ stable_gesture = "thumbs_up"
    /\ cb_gesture = "thumbs_up"
    /\ now - cb_time >= GESTURE_COOLDOWN
    /\ callbacks = <<>>

\* C24: with a lock around each gate call, every callback is a cooldown or
\* more after the one before and for another gesture; without the lock two
\* interleaved calls can both pass the checks (the witness).
C24_SequentialGateIsSafe ==
    [][(mutex /\ callbacks' # <<>> /\ cb_time # -1) =>
           /\ cb_time' - cb_time >= GESTURE_COOLDOWN
           /\ callbacks'[1].gesture # cb_gesture
      ]_vars

\* C24 witness: without the lock, a second callback for the same gesture
\* within one cooldown of the first.
C24_InterleavedCallsBothDispatch ==
    /\ ~mutex
    /\ callbacks # <<>>
    /\ prior.gesture = callbacks[1].gesture
    /\ cb_time - prior.time < GESTURE_COOLDOWN

\* C25: a label whose count reaches 60% of a history of five or more is the
\* only label with the highest count and is the stabilized label; when two
\* labels tie for the highest count the stabilized label is None; so the
\* stabilized label is determined by the counts alone.
C25_TieBreakNeverDecides ==
    LET n == Len(gesture_history)
        labels == {gesture_history[i] : i \in 1..n} \ {None}
        count(g) == Occurrences(gesture_history, g)
        reaches(g) == n >= 5 /\ 10 * count(g) >= 6 * n
    IN  /\ \A g \in labels :
               reaches(g) =>
                   /\ \A k \in labels \ {g} : count(k) < count(g)
                   /\ stable_gesture = g
        /\ (\E g \in labels : \E k \in labels \ {g} :
               /\ count(g) = count(k)
               /\ \A m \in labels : count(m) <= count(g)) =>
               stable_gesture = None
        /\ stable_gesture =
               IF \E g \in labels : reaches(g)
               THEN CHOOSE g \in labels : reaches(g)
               ELSE None

\* C25 witness: six samples, three of each gesture, the later one first in the
\* history: no stabilized label.
C25_TieIsNone ==
    /\ frame = "stabilize"
    /\ Len(gesture_history) = 6
    /\ gesture_history[1] = "peace"
    /\ Occurrences(gesture_history, "thumbs_up") = 3
    /\ Occurrences(gesture_history, "peace") = 3
    /\ stable_gesture = None

\* C26: with all four fingers curled the classifier returns thumbs_up,
\* thumbs_down, fist or None; None exactly when 0.12 <= vertical_diff <= 0.15
\* and the thumb tip is not within 0.15 of the palm centre on both axes; and
\* fist whenever -0.10 <= vertical_diff < 0.12.
C26_CurledHandOutcomes ==
    (Classified /\ AllFourCurled) =>
        /\ detected_gesture \in {"thumbs_up", "thumbs_down", "fist", None}
        /\ detected_gesture = None <=>
               (12 <= VerticalDiff /\ VerticalDiff <= 15 /\ ~ThumbTucked)
        /\ (-10 <= VerticalDiff /\ VerticalDiff < 12) => detected_gesture = "fist"

\* C26 witness: a curled hand, the thumb tip 0.12 above the wrist and away
\* from the palm centre: no gesture.
C26_CurledHandNoGesture ==
    /\ frame = "classify"
    /\ AllFourCurled
    /\ VerticalDiff = 12
    /\ ~ThumbTucked
    /\ detected_gesture = None

\* C27: every label a frame is classified as has an action, and every frame
\* that updates the dispatch state makes exactly one callback, for the
\* dispatched gesture and its action.
C27_DispatchAlwaysCallsBack ==
    [][/\ (frame' = "hand" /\ detected_gesture' # None) =>
              detected_gesture' \in DOMAIN ActionMapping
       /\ (/\ frame' = "hand"
           /\ \/ last_triggered_gesture' # last_triggered_gesture
              \/ last_gesture_time' # last_gesture_time) =>
              callbacks' = <<[gesture |-> last_triggered_gesture',
                              action |-> ActionMapping[last_triggered_gesture']]>>
      ]_vars

\* C27 witness: the fist dispatched, after the open palm, with its callback.
C27_FistDispatched ==
    /\ frame = "hand"
    /\ detected_gesture = "fist"
    /\ last_triggered_gesture = "fist"
    /\ last_gesture_time = now
    /\ prior.gesture = "open_palm"
    /\ callbacks = <<[gesture |-> "fist", action |-> "stop_tts"]>>

\* C28: at most one _process_gesture_frame call is due at any time, whatever
\* the order of toggles, window closes and timer firings.
C28_OnePollPending == pending_polls <= 1

C30_FontSizeBounded ==
    [][LET increase == executed'.performed /\ executed'.action = "increase_font"
           decrease == executed'.performed /\ executed'.action = "decrease_font"
       IN  /\ current_font_size' \in 12..48
           /\ increase => current_font_size' =
                  IF current_font_size = 48 THEN 48 ELSE current_font_size + 2
           /\ decrease => current_font_size' =
                  IF current_font_size = 12 THEN 12 ELSE current_font_size - 2
           /\ (~increase /\ ~decrease) => current_font_size' = current_font_size
      ]_vars

\* C30 witness: a thumbs_up action performed at size 48 left the size at 48.
C30_IncreaseAtMaximum ==
    /\ gui_event = "execute"
    /\ executed.gesture = "thumbs_up"
    /\ executed.action = "increase_font"
    /\ executed.performed
    /\ executed.before = 48
    /\ current_font_size = 48

\* C31: pause() goes on to set is_paused and return True only when it reads
\* the state "playing", resume() only when it reads "paused"; read in any
\* other state each returns False and writes neither flag.  The write touches
\* is_paused alone, and the engine is then "paused" (after pause) or "playing"
\* (after resume) unless playback ended meanwhile.  toggle_pause called in
\* "stopped" returns False and leaves the engine "stopped"; called in
\* "playing" it pauses, called in "paused" it resumes.
C31_PauseResumeGuards ==
    [][LET state == get_state(is_speaking, is_paused)
           state_after == get_state(is_speaking', is_paused')
           reads == main_pc = "idle" /\ tts_event' \in {"pause", "resume"}
           goes_on == IF tts_event' = "pause" THEN state = "playing"
                      ELSE state = "paused"
       IN  /\ reads =>
                 /\ called_in' = state
                 /\ is_speaking' = is_speaking
                 /\ is_paused' = is_paused
                 /\ IF goes_on
                    THEN returned' = None /\ main_pc' # "idle"
                    ELSE returned' = "False" /\ main_pc' = "idle"
           /\ (reads /\ main_call' = "toggle_pause") =>
                 /\ state = "stopped" =>
                        returned' = "False" /\ state_after = "stopped"
                 /\ state = "playing" => main_pc' = "pause_is_paused"
                 /\ state = "paused" => main_pc' = "resume_is_paused"
           /\ (main_pc = "pause_is_paused" /\ main_pc' = "idle") =>
                 /\ called_in = "playing"
                 /\ returned' = "True"
                 /\ is_paused' = TRUE
                 /\ is_speaking' = is_speaking
                 /\ is_speaking => state_after = "paused"
           /\ (main_pc = "resume_is_paused" /\ main_pc' = "idle") =>
                 /\ called_in = "paused"
                 /\ returned' = "True"
                 /\ is_paused' = FALSE
                 /\ is_speaking' = is_speaking
                 /\ is_speaking => state_after = "playing"
           /\ (returned' = "True" /\ returned # "True") =>
                 main_pc \in {"pause_is_paused", "resume_is_paused"}
      ]_vars

\* C31 witness: toggle_pause, called while playing, returned True and the
\* engine is paused.
C31_TogglePaused ==
    /\ main_call = "toggle_pause"
    /\ tts_event = "pause"
    /\ called_in = "playing"
    /\ returned = "True"
    /\ get_state(is_speaking, is_paused) = "paused"

\* C32: in every reachable state of the engine, is_paused implies is_speaking.
C32_PausedImpliesSpeaking == is_paused => is_speaking

\* C33: no playback thread that was alive when a stop() began (a stop() called
\* by the reader or by a later speak()) schedules the completion callback.
C33_StoppedNeverScheduled == scheduled \cap stopped = {}

\* C34: at most one playback thread is loading or playing audio (has passed
\* the should_stop test of line 103 and not yet left the playback loop).
C34_OnePlaybackThread ==
    Cardinality({t \in SpeechThreads :
                    speech_pc[t] \in {"load", "loop_stop", "loop_pause",
                                      "loop_busy"}}) <= 1

====
